---- MODULE Spec2Model ----
(***************************************************************************)
(* The Telegram webhook handler of qr-sync-telegram-bot (src/handler.js):  *)
(* one Lambda invocation per delivered update, a DynamoDB record holding   *)
(* the latest update id, and the replies each invocation sends.            *)
(*                                                                         *)
(* Every await of the handler is one action of the model, so concurrent    *)
(* invocations interleave exactly at the points where the code suspends.   *)
(* Each collaborator call (DynamoDB, Telegram, Jimp, jsQR, vcard-parser)   *)
(* either succeeds or throws.                                              *)
(*                                                                         *)
(* The handler kept in src/unnamed/part_000, which has the same router and *)
(* photo path and no DynamoDB record, is modelled by SpecPlain.            *)
(***************************************************************************)
EXTENDS Integers, Sequences, FiniteSets, TLC

\* ------------------------------------------------------------------ bounds
NumSlots == 2
MaxDeliveries == 3
MaxUpdateId == 2
\* Entries of one field in a decoded contact.
MaxEntries == 2

Slots == 1..NumSlots
UpdateIds == 1..MaxUpdateId
\* Values the persisted marker may hold when the deployment starts.
InitialMarkers == 0..1

\* ------------------------------------------------------------ configuration
\* parseInt(process.env.MAX_PHOTO_SIZE)
sizeLimit == 2

\* ------------------------------------------------------------------ strings
\* A string is a sequence of symbols; " " is the only whitespace symbol used.
Str(c) == <<c>>
EmptyStr == << >>

RECURSIVE TrimLeft(_)
TrimLeft(s) ==
    IF s # << >> /\ Head(s) = " " THEN TrimLeft(Tail(s)) ELSE s

RECURSIVE TrimRight(_)
TrimRight(s) ==
    IF s # << >> /\ s[Len(s)] = " " THEN TrimRight(SubSeq(s, 1, Len(s) - 1)) ELSE s

\* String.prototype.trim
Trim(s) == TrimRight(TrimLeft(s))

\* ------------------------------------------------------------------- inputs
NoText == "<undefined>"
NoReply == "<none>"
MessageIds == {"m7"}

Variant(w, h, f) == [width |-> w, height |-> h, file_id |-> f]
small == Variant(1, 1, "small")
edge == Variant(sizeLimit, sizeLimit, "edge")
wide == Variant(sizeLimit + 1, 1, "wide")
tall == Variant(1, sizeLimit + 1, "tall")

\* Photo-size sequences as Telegram sends them, smallest first.
Photos == { << >>, <<edge>>, <<wide>>, <<tall>>, <<small, edge>>, <<small, wide>> }

Texts == {"/start", "/about", "/app", "hello"}

Msg(t, hp, p, id) == [text |-> t, has_photo |-> hp, photo |-> p, message_id |-> id]

Messages ==
    UNION { {Msg(t, FALSE, << >>, id) : t \in Texts \cup {NoText, ""}}
            \cup {Msg(NoText, TRUE, p, id) : p \in Photos}
            \cup {Msg("", TRUE, <<edge>>, id), Msg("/start", TRUE, <<edge>>, id)}
          : id \in MessageIds }

NoMessage == Msg(NoText, FALSE, << >>, NoReply)

\* event.body: text that does not parse, JSON without message, JSON whose
\* message has no chat, or a well-formed update.
BodyKinds == {"unparseable", "no_message", "no_chat", "update"}

\* ------------------------------------------------------------------- state
VARIABLES
    table,      \* DynamoDB table: key -> the item's latest_update_id attribute
    pc,         \* per slot: where the invocation is
    upd,        \* per slot: body.update_id
    msg,        \* per slot: body.message
    latest,     \* per slot: the value checkAlreadyHandled read
    handled,    \* per slot: what `await checkAlreadyHandled(...)` gave
    data,       \* per slot: the string decodePhoto returned
    trace,      \* per slot: collaborator calls of the invocation, in order
    files,      \* slots whose downloaded file is still in os.tmpdir()
    delivered,  \* number of deliveries so far
    marker0,    \* history: the marker when the deployment started
    passed,     \* history: update ids let through to handleIncomingMessage
    checked,    \* history: update ids for which checkAlreadyHandled returned
    late,       \* per slot: the delivery began after its id was in passed
    lost        \* history: update ids that passed the gate and then failed

vars == <<table, pc, upd, msg, latest, handled, data, trace, files, delivered,
          marker0, passed, checked, late, lost>>

MarkerKey == "latest_update_id"
HasItem == MarkerKey \in DOMAIN table
marker == table[MarkerKey]

AtRest(i) == pc[i] \in {"idle", "returned", "thrown"}

\* --------------------------------------------------------- decoded payloads
\* A decoded payload is a string, held as its lines; each line is KEY:value.
Line(k, v) == [value |-> v, key |-> k]
BeginVcard == Line("BEGIN", Str("VCARD"))

PlainData == { <<Line("TEXT", Str("h"))>>, <<Line("TEXT", Str("h")), BeginVcard>> }
VcardData == { <<BeginVcard, Line("FN", Str("A")), Line("FN", Str(" ")), Line("TEL", Str("1"))>>,
               <<BeginVcard, Line("TEL", EmptyStr)>> }

\* What jsQR(data, width, height) gives: a thrown error, null when no code is
\* located, or an object with the decoded data (possibly "").
QrOutcome(k, d) == [data |-> d, kind |-> k]
QrOutcomes ==
    {QrOutcome("throws", << >>), QrOutcome("null", << >>)}
    \cup {QrOutcome("object", d) : d \in {<< >>} \cup PlainData \cup VcardData}

\* Mutant: the marker anywhere in the payload, as data.includes would find it.
ContainsVcard(d) == \E n \in 1..Len(d) : d[n] = BeginVcard

\* data.startsWith('BEGIN:VCARD')
StartsWithVcard(d) == Len(d) >= 1 /\ d[1] = BeginVcard

\* vCard.parse(vcard): field name -> the entries of that field, in order; a
\* field with no line in the payload is not a property of the card.
FieldEntries(d, k) ==
    LET hit(l) == l.key = k
        at == SelectSeq(d, hit)
    IN  [n \in 1..Len(at) |-> [value |-> at[n].value]]

Parse(d) == [has_fn |-> FieldEntries(d, "FN") # << >>, fn |-> FieldEntries(d, "FN"),
             has_tel |-> FieldEntries(d, "TEL") # << >>, tel |-> FieldEntries(d, "TEL")]

DefaultName == Str("No name found")
DefaultTelephone == Str("123456789")

\* Mutant: the first entry with a non-blank value wins.
RECURSIVE FirstNonBlank(_, _)
FirstNonBlank(entries, acc) ==
    IF entries = << >> THEN acc
    ELSE IF Trim(Head(entries).value) # EmptyStr THEN Head(entries).value
    ELSE FirstNonBlank(Tail(entries), acc)

\* entries.forEach(e => { if (e.value.trim() !== '') { acc = e.value } })
RECURSIVE LastNonBlank(_, _)
LastNonBlank(entries, acc) ==
    IF entries = << >> THEN acc
    ELSE LastNonBlank(Tail(entries),
                      IF Trim(Head(entries).value) # EmptyStr THEN Head(entries).value ELSE acc)

extractProperties(vcard) ==
    LET card == Parse(vcard)
    IN  [name |-> IF card.has_fn THEN LastNonBlank(card.fn, DefaultName) ELSE DefaultName,
         telephone |-> IF card.has_tel THEN LastNonBlank(card.tel, DefaultTelephone)
                       ELSE DefaultTelephone]

\* ------------------------------------------------------------ trace entries
Entry(api, text, md, reply, number, called, attached) ==
    [name |-> called, op |-> api, body |-> text, markdown |-> md, reply_to |-> reply,
     phone |-> number, payload |-> attached, ok |-> TRUE]

Call(op, arg) == Entry(op, arg, FALSE, NoReply, EmptyStr, EmptyStr, << >>)

\* bot.sendMessage(chatId, message) of sendErrorMessage
ErrorMessage == Entry("sendMessage", "error", FALSE, NoReply, EmptyStr, EmptyStr, << >>)

\* sendMarkdownMessage(chatId, message)
sendMarkdownMessage(body) ==
    Entry("sendMessage", body, TRUE, NoReply, EmptyStr, EmptyStr, << >>)

\* sendMarkdownReply(chatId, messageId, message); payload is the decoded text
\* when the message is the text itself
sendMarkdownReply(messageId, body, payload) ==
    Entry("sendMessage", body, TRUE, messageId, EmptyStr, EmptyStr, payload)

\* sendContactReply(chatId, messageId, vcard)
sendContactReply(messageId, vcard) ==
    LET properties == extractProperties(vcard)
    IN  Entry("sendContact", "", FALSE, messageId,
              properties.telephone, properties.name, vcard)

IsSend(e) == e.op \in {"sendMessage", "sendContact"}
\* The outbound actions of an invocation, failed attempts included.
Outbox(i) == SelectSeq(trace[i], IsSend)
Ops(i) == {trace[i][n].op : n \in 1..Len(trace[i])}

\* --------------------------------------------------------------- the code
\* Mutant: any id other than the stored one counts as new.
IsNewIfDifferent(latestId, current) == latestId # current

\* Mutant: an id counts as new when no invocation was let through with it.
IsNewIfUnseen(latestId, current) == current \notin passed

\* Mutant: an id counts as new only when it is at least two above the marker.
IsNewByGap(latestId, current) == latestId + 1 < current

\* latest < current
IsNew(latestId, current) == latestId < current

\* UpdateExpression 'SET #latest = :latest' on the item with the marker key
SetLatest(tbl, current) == [k \in DOMAIN tbl \cup {MarkerKey} |-> current]

\* message.photo[message.photo.length - 1]
SelectedPhoto(m) == m.photo[Len(m.photo)]

\* Mutant: && in place of ||.
TooLargeInBoth(photo) == photo.width > sizeLimit /\ photo.height > sizeLimit

\* photo.width > sizeLimit || photo.height > sizeLimit
TooLarge(photo) == photo.width > sizeLimit \/ photo.height > sizeLimit

\* Mutant: the photo test comes before the text test.
RoutePhotoFirst(m) ==
    IF m.has_photo /\ Len(m.photo) > 0 THEN "photo"
    ELSE IF m.text # NoText /\ m.text # "" THEN "text"
    ELSE "none"

\* handleIncomingMessage: which handler a message goes to
Route(m) ==
    IF m.text # NoText /\ m.text # "" THEN "text"
    ELSE IF m.has_photo /\ Len(m.photo) > 0 THEN "photo"
    ELSE "none"

\* handleTextMessage: the commands that are answered
Commands == {"/start", "/about", "/app"}

\* Mutant: the invocation goes on to `next` whether the call throws or not.
StepRegardless(i, e, ok, next) ==
    /\ trace' = [trace EXCEPT ![i] = Append(@, [e EXCEPT !.ok = ok])]
    /\ pc' = [pc EXCEPT ![i] = next]

\* One collaborator call of invocation i: it is recorded, and the invocation
\* goes on to `next`, or to the catch block when the call throws.
Step(i, e, ok, next) ==
    /\ trace' = [trace EXCEPT ![i] = Append(@, [e EXCEPT !.ok = ok])]
    /\ pc' = [pc EXCEPT ![i] = IF ok THEN next ELSE "catch"]

Init ==
    /\ \/ table = << >>
       \/ \E n \in InitialMarkers : table = [k \in {MarkerKey} |-> n]
    /\ marker0 = IF HasItem THEN marker ELSE 0
    /\ pc = [i \in Slots |-> "idle"]
    /\ upd = [i \in Slots |-> 0]
    /\ msg = [i \in Slots |-> NoMessage]
    /\ latest = [i \in Slots |-> 0]
    /\ handled = [i \in Slots |-> "pending"]
    /\ data = [i \in Slots |-> << >>]
    /\ trace = [i \in Slots |-> << >>]
    /\ files = {}
    /\ delivered = 0
    /\ passed = {}
    /\ checked = {}
    /\ late = [i \in Slots |-> FALSE]
    /\ lost = {}

\* A delivery starts in a free slot: the invocation's locals are fresh.
Fresh(i, u, m, to, tr) ==
    /\ AtRest(i)
    /\ delivered < MaxDeliveries
    /\ delivered' = delivered + 1
    /\ pc' = [pc EXCEPT ![i] = to]
    /\ upd' = [upd EXCEPT ![i] = u]
    /\ msg' = [msg EXCEPT ![i] = m]
    /\ latest' = [latest EXCEPT ![i] = 0]
    /\ handled' = [handled EXCEPT ![i] = "pending"]
    /\ data' = [data EXCEPT ![i] = << >>]
    /\ trace' = [trace EXCEPT ![i] = tr]
    /\ late' = [late EXCEPT ![i] = u \in passed]
    /\ UNCHANGED <<table, files, marker0, passed, checked, lost>>

\* message, lines 23-25: JSON.parse(event.body) and body.message.chat.id run
\* before the try block; when either throws, the invocation rejects.
ReceiveMalformed(i) ==
    \E kind \in BodyKinds \ {"update"} :
        Fresh(i, 0, NoMessage, "thrown", <<[Call("JSON.parse", kind) EXCEPT !.ok = FALSE]>>)

\* message, lines 21-27: a well-formed update enters the try block.
Receive(i, messages) ==
    \E u \in UpdateIds, m \in messages : Fresh(i, u, m, "get", << >>)

\* checkAlreadyHandled, lines 57-60 and 79-81: the read of the marker item and
\* the comparison. A missing item makes result.Item['latest_update_id'] throw.
DbGet(i) ==
    /\ pc[i] = "get"
    /\ \E ok \in BOOLEAN :
        /\ trace' = [trace EXCEPT ![i] =
                        Append(@, [Call("db.get", IF HasItem THEN "Item" ELSE "no Item")
                                       EXCEPT !.ok = ok])]
        /\ IF ok /\ HasItem
           THEN /\ latest' = [latest EXCEPT ![i] = marker]
                /\ IF IsNew(marker, upd[i])
                   THEN /\ pc' = [pc EXCEPT ![i] = "update"]
                        /\ UNCHANGED <<handled, checked>>
                   ELSE /\ pc' = [pc EXCEPT ![i] = "skip"]
                        /\ handled' = [handled EXCEPT ![i] = "true"]
                        /\ checked' = checked \cup {upd[i]}
           ELSE /\ pc' = [pc EXCEPT ![i] = "catch"]
                /\ handled' = [handled EXCEPT ![i] = "threw"]
                /\ UNCHANGED <<latest, checked>>
    /\ UNCHANGED <<table, upd, msg, data, files, delivered, marker0, passed, late, lost>>

\* checkAlreadyHandled, lines 60-78: the write of the marker, then return false.
DbUpdate(i) ==
    /\ pc[i] = "update"
    /\ \E ok \in BOOLEAN :
        /\ Step(i, Call("db.update", ""), ok, "dispatch")
        /\ IF ok
           THEN /\ table' = SetLatest(table, upd[i])
                /\ handled' = [handled EXCEPT ![i] = "false"]
                /\ passed' = passed \cup {upd[i]}
                /\ checked' = checked \cup {upd[i]}
           ELSE /\ handled' = [handled EXCEPT ![i] = "threw"]
                /\ UNCHANGED <<table, passed, checked>>
    /\ UNCHANGED <<upd, msg, latest, data, files, delivered, marker0, late, lost>>

\* Mutant: the skip path stores the update id it was given.
SkipRewinding(i) ==
    /\ pc[i] = "skip"
    /\ \E ok \in BOOLEAN : Step(i, ErrorMessage, ok, "returned")
    /\ table' = SetLatest(table, upd[i])
    /\ UNCHANGED <<upd, msg, latest, handled, data, files, delivered, marker0,
                   passed, checked, late, lost>>

\* message, lines 28-30: checkAlreadyHandled returned true.
Skip(i) ==
    /\ pc[i] = "skip"
    /\ \E ok \in BOOLEAN : Step(i, ErrorMessage, ok, "returned")
    /\ UNCHANGED <<table, upd, msg, latest, handled, data, files, delivered, marker0,
                   passed, checked, late, lost>>

\* Mutant: the catch block puts the marker back to the value the gate read.
CatchWithRollback(i) ==
    /\ pc[i] = "catch"
    /\ \E ok \in BOOLEAN :
        /\ trace' = [trace EXCEPT ![i] = Append(@, [ErrorMessage EXCEPT !.ok = ok])]
        /\ pc' = [pc EXCEPT ![i] = "returned"]
    /\ table' = IF handled[i] = "false" THEN SetLatest(table, latest[i]) ELSE table
    /\ lost' = IF handled[i] = "false" THEN lost \cup {upd[i]} ELSE lost
    /\ UNCHANGED <<upd, msg, latest, handled, data, files, delivered, marker0,
                   passed, checked, late>>

\* message, lines 34-39: the catch block; the return in the finally block
\* discards whatever sendErrorMessage throws.
Catch(i) ==
    /\ pc[i] = "catch"
    /\ \E ok \in BOOLEAN :
        /\ trace' = [trace EXCEPT ![i] = Append(@, [ErrorMessage EXCEPT !.ok = ok])]
        /\ pc' = [pc EXCEPT ![i] = "returned"]
    /\ lost' = IF handled[i] = "false" THEN lost \cup {upd[i]} ELSE lost
    /\ UNCHANGED <<table, upd, msg, latest, handled, data, files, delivered, marker0,
                   passed, checked, late>>

\* handleIncomingMessage with handleTextMessage, or with handlePhotoMessage up
\* to its first await (lines 89-142).
Dispatch(i) ==
    /\ pc[i] = "dispatch"
    /\ LET m == msg[i]
           r == Route(m)
       IN  CASE r = "text" /\ m.text \in Commands ->
                    \E ok \in BOOLEAN : Step(i, sendMarkdownMessage(m.text), ok, "returned")
             [] r = "text" /\ m.text \notin Commands ->
                    /\ pc' = [pc EXCEPT ![i] = "returned"]
                    /\ UNCHANGED trace
             [] r = "photo" /\ TooLarge(SelectedPhoto(m)) ->
                    \E ok \in BOOLEAN : Step(i, sendMarkdownMessage("sizeLimit"), ok, "returned")
             [] r = "photo" /\ ~TooLarge(SelectedPhoto(m)) ->
                    \E ok \in BOOLEAN : Step(i, sendMarkdownMessage("decoding"), ok, "download")
             [] r = "none" ->
                    /\ pc' = [pc EXCEPT ![i] = "returned"]
                    /\ UNCHANGED trace
    /\ UNCHANGED <<table, upd, msg, latest, handled, data, files, delivered, marker0,
                   passed, checked, late, lost>>

\* decodePhoto, line 168: bot.downloadFile(photo.file_id, os.tmpdir())
Download(i) ==
    /\ pc[i] = "download"
    /\ \E ok \in BOOLEAN :
        /\ Step(i, Call("downloadFile", SelectedPhoto(msg[i]).file_id), ok, "read")
        /\ files' = IF ok THEN files \cup {i} ELSE files
    /\ UNCHANGED <<table, upd, msg, latest, handled, data, delivered, marker0,
                   passed, checked, late, lost>>

\* decodePhoto, line 171: Jimp.read(path)
ImageRead(i) ==
    /\ pc[i] = "read"
    /\ \E ok \in BOOLEAN : Step(i, Call("Jimp.read", ""), ok, "decode")
    /\ UNCHANGED <<table, upd, msg, latest, handled, data, files, delivered, marker0,
                   passed, checked, late, lost>>

\* decodeBitmap: jsQR(...) then result.data || ''. Reading .data of null throws
\* inside the promise executor, which rejects the promise.
DecodeBitmapOk(r) == r.kind = "object"

\* decodePhoto, lines 174-179: decodeBitmap, then fs.unlinkSync(path) when
\* decodeBitmap resolved.
Decode(i, outcomes) ==
    /\ pc[i] = "decode"
    /\ \E r \in outcomes :
        /\ Step(i, Call("jsQR", r.kind), DecodeBitmapOk(r), "result")
        /\ data' = [data EXCEPT ![i] = r.data]
        /\ files' = IF DecodeBitmapOk(r) THEN files \ {i} ELSE files
    /\ UNCHANGED <<table, upd, msg, latest, handled, delivered, marker0,
                   passed, checked, late, lost>>

\* handlePhotoMessage, lines 146-155: the first message after the decode.
Result(i) ==
    /\ pc[i] = "result"
    /\ LET m == msg[i]
       IN  CASE data[i] = << >> ->
                    \E ok \in BOOLEAN :
                        Step(i, sendMarkdownReply(m.message_id, "empty", << >>), ok, "returned")
             [] data[i] # << >> /\ StartsWithVcard(data[i]) ->
                    \E ok \in BOOLEAN : Step(i, sendMarkdownMessage("doneContact"), ok, "contact")
             [] data[i] # << >> /\ ~StartsWithVcard(data[i]) ->
                    \E ok \in BOOLEAN : Step(i, sendMarkdownMessage("doneText"), ok, "text")
    /\ UNCHANGED <<table, upd, msg, latest, handled, data, files, delivered, marker0,
                   passed, checked, late, lost>>

\* handlePhotoMessage, line 152: sendContactReply; vCard.parse may throw.
ContactReply(i) ==
    /\ pc[i] = "contact"
    /\ \E parsed \in BOOLEAN, ok \in BOOLEAN :
        IF parsed
        THEN Step(i, sendContactReply(msg[i].message_id, data[i]), ok, "returned")
        ELSE ~ok /\ Step(i, Call("vCard.parse", ""), FALSE, "returned")
    /\ UNCHANGED <<table, upd, msg, latest, handled, data, files, delivered, marker0,
                   passed, checked, late, lost>>

\* handlePhotoMessage, line 156: the decoded text as a reply.
TextReply(i) ==
    /\ pc[i] = "text"
    /\ \E ok \in BOOLEAN :
        Step(i, sendMarkdownReply(msg[i].message_id, "data", data[i]), ok, "returned")
    /\ UNCHANGED <<table, upd, msg, latest, handled, data, files, delivered, marker0,
                   passed, checked, late, lost>>

\* Concurrent invocations: any slot may take any step. The deliveries are a
\* command and a photo within the size limit, with or without a code in it.
ConcurrentMessages ==
    {Msg("/about", FALSE, << >>, id) : id \in MessageIds}
    \cup {Msg(NoText, TRUE, <<edge>>, id) : id \in MessageIds}

ConcurrentOutcomes ==
    {QrOutcome("null", << >>)}
    \cup {QrOutcome("object", d) : d \in {<<Line("TEXT", Str("h"))>>, <<BeginVcard, Line("TEL", EmptyStr)>>}}

Next ==
    \E i \in Slots :
        \/ ReceiveMalformed(i)
        \/ Receive(i, ConcurrentMessages)
        \/ DbGet(i)
        \/ DbUpdate(i)
        \/ Skip(i)
        \/ Catch(i)
        \/ Dispatch(i)
        \/ Download(i)
        \/ ImageRead(i)
        \/ Decode(i, ConcurrentOutcomes)
        \/ Result(i)
        \/ ContactReply(i)
        \/ TextReply(i)

Spec == Init /\ [][Next]_vars

\* Invocations one after another, in one reused container: every message and
\* every decode outcome.
Container == CHOOSE i \in Slots : \A j \in Slots : i <= j

NextSeq ==
    \/ ReceiveMalformed(Container)
    \/ Receive(Container, Messages)
    \/ DbGet(Container)
    \/ DbUpdate(Container)
    \/ Skip(Container)
    \/ Catch(Container)
    \/ Dispatch(Container)
    \/ Download(Container)
    \/ ImageRead(Container)
    \/ Decode(Container, QrOutcomes)
    \/ Result(Container)
    \/ ContactReply(Container)
    \/ TextReply(Container)

SpecSeq == Init /\ [][NextSeq]_vars

\* --------------------------------------------------- decoded contacts only
\* Contacts with up to MaxEntries FN lines and up to MaxEntries TEL lines, whose
\* values are empty, blank, or text with or without blanks around it.
SeqsUpTo(S, n) == UNION {[1..k -> S] : k \in 0..n}
ExtractValues == {EmptyStr, Str(" "), Str("A"), <<" ", "B", " ">>}
ExtractCards ==
    { <<BeginVcard>> \o [n \in 1..Len(f) |-> Line("FN", f[n])]
                     \o [n \in 1..Len(t) |-> Line("TEL", t[n])]
      : f \in SeqsUpTo(ExtractValues, MaxEntries), t \in SeqsUpTo(ExtractValues, MaxEntries) }

\* handlePhotoMessage at line 152: a photo of the first update was decoded to
\* a contact and announced; sendContactReply is about to be called.
InitExtract ==
    /\ table = [k \in {MarkerKey} |-> 1]
    /\ marker0 = 0
    /\ pc = [i \in Slots |-> IF i = Container THEN "contact" ELSE "idle"]
    /\ upd = [i \in Slots |-> IF i = Container THEN 1 ELSE 0]
    /\ msg = [i \in Slots |-> IF i = Container THEN Msg(NoText, TRUE, <<edge>>, "m7")
                              ELSE NoMessage]
    /\ latest = [i \in Slots |-> 0]
    /\ handled = [i \in Slots |-> IF i = Container THEN "false" ELSE "pending"]
    /\ \E vcard \in ExtractCards :
          data = [i \in Slots |-> IF i = Container THEN vcard ELSE << >>]
    /\ trace = [i \in Slots |->
                  IF i = Container
                  THEN <<Call("db.get", "Item"), Call("db.update", ""),
                         sendMarkdownMessage("decoding"), Call("downloadFile", edge.file_id),
                         Call("Jimp.read", ""), Call("jsQR", "object"),
                         sendMarkdownMessage("doneContact")>>
                  ELSE << >>]
    /\ files = {}
    /\ delivered = 1
    /\ passed = {1}
    /\ checked = {1}
    /\ late = [i \in Slots |-> FALSE]
    /\ lost = {}

NextExtract ==
    \/ ContactReply(Container)
    \/ Catch(Container)

SpecExtract == InitExtract /\ [][NextExtract]_vars

\* ---------------------------------------- the variant without the marker
\* src/unnamed/part_000 holds a handler with the same message router, photo
\* path and senders, and with no DynamoDB client.

\* handleTextMessage of the variant: the commands that are answered
PlainCommands == {"/start", "/about"}

\* Mutant: the variant's deliveries enter checkAlreadyHandled first.
ReceiveGated(i, messages) == Receive(i, messages)

\* message of the variant, lines 33-39: a well-formed update enters the try
\* block, whose first statement is handleIncomingMessage(message); update_id
\* is not read.
ReceivePlain(i, messages) ==
    \E u \in UpdateIds, m \in messages :
        /\ AtRest(i)
        /\ delivered < MaxDeliveries
        /\ delivered' = delivered + 1
        /\ pc' = [pc EXCEPT ![i] = "dispatch"]
        /\ upd' = [upd EXCEPT ![i] = u]
        /\ msg' = [msg EXCEPT ![i] = m]
        /\ latest' = [latest EXCEPT ![i] = 0]
        /\ handled' = [handled EXCEPT ![i] = "pending"]
        /\ data' = [data EXCEPT ![i] = << >>]
        /\ trace' = [trace EXCEPT ![i] = << >>]
        /\ late' = [late EXCEPT ![i] = u \in passed]
        /\ passed' = passed \cup {u}
        /\ UNCHANGED <<table, files, marker0, checked, lost>>

\* handleIncomingMessage with handleTextMessage and the head of
\* handlePhotoMessage of the variant, lines 58-106.
DispatchPlain(i) ==
    /\ pc[i] = "dispatch"
    /\ CASE Route(msg[i]) = "text" /\ msg[i].text \in PlainCommands ->
                \E ok \in BOOLEAN : Step(i, sendMarkdownMessage(msg[i].text), ok, "returned")
         [] Route(msg[i]) = "text" /\ msg[i].text \notin PlainCommands ->
                pc' = [pc EXCEPT ![i] = "returned"] /\ UNCHANGED trace
         [] Route(msg[i]) = "photo" /\ TooLarge(SelectedPhoto(msg[i])) ->
                \E ok \in BOOLEAN : Step(i, sendMarkdownMessage("sizeLimit"), ok, "returned")
         [] Route(msg[i]) = "photo" /\ ~TooLarge(SelectedPhoto(msg[i])) ->
                \E ok \in BOOLEAN : Step(i, sendMarkdownMessage("decoding"), ok, "download")
         [] Route(msg[i]) = "none" ->
                pc' = [pc EXCEPT ![i] = "returned"] /\ UNCHANGED trace
    /\ UNCHANGED <<table, upd, msg, latest, handled, data, files, delivered, marker0,
                   passed, checked, late, lost>>

\* decodePhoto of the variant, lines 139-144: jsQR, then fs.unlinkSync(path),
\* then result.data, which throws when jsQR returned null.
DecodePlain(i, outcomes) ==
    /\ pc[i] = "decode"
    /\ \E r \in outcomes :
        /\ Step(i, Call("jsQR", r.kind), r.kind = "object", "result")
        /\ data' = [data EXCEPT ![i] = r.data]
        /\ files' = IF r.kind = "throws" THEN files ELSE files \ {i}
    /\ UNCHANGED <<table, upd, msg, latest, handled, delivered, marker0,
                   passed, checked, late, lost>>

NextPlain ==
    \/ ReceiveMalformed(Container)
    \/ ReceivePlain(Container, Messages)
    \/ Catch(Container)
    \/ DispatchPlain(Container)
    \/ Download(Container)
    \/ ImageRead(Container)
    \/ DecodePlain(Container, QrOutcomes)
    \/ Result(Container)
    \/ ContactReply(Container)
    \/ TextReply(Container)

SpecPlain == Init /\ [][NextPlain]_vars

\* ------------------------------------------------------- reading the state
Max(S) == CHOOSE x \in S : \A y \in S : y <= x
Last(q) == q[Len(q)]

\* checkAlreadyHandled returned false and handleIncomingMessage was entered.
RanHandler(i) == handled[i] = "false" /\ pc[i] # "dispatch"
\* handleIncomingMessage was entered, behind the gate or without one.
Entered(i) ==
    /\ handled[i] \in {"false", "pending"}
    /\ pc[i] \notin {"idle", "thrown", "get", "update", "dispatch"}
\* No collaborator call of the invocation threw.
NoFailure(i) == \A n \in 1..Len(trace[i]) : trace[i][n].ok
IsHandlerSend(e) == IsSend(e) /\ e # ErrorMessage /\ e # [ErrorMessage EXCEPT !.ok = FALSE]
\* The outbound actions of handleIncomingMessage, without the generic error
\* message of the top level.
HandlerOut(i) == SelectSeq(trace[i], IsHandlerSend)
ErrorsSent(i) == Len(Outbox(i)) - Len(HandlerOut(i))
IsPrefix(p, q) == Len(p) <= Len(q) /\ \A n \in 1..Len(p) : p[n] = q[n]

IsPhotoMessage(m) == m.text \in {NoText, ""} /\ m.has_photo /\ m.photo # << >>
LastVariant(m) == m.photo[Len(m.photo)]
\* jsQR returned for invocation i, with the given kind of result.
Jsqr(i, kind) == \E n \in 1..Len(trace[i]) : trace[i][n].op = "jsQR" /\ trace[i][n].body = kind
GotNoItem(i) ==
    \E n \in 1..Len(trace[i]) :
        trace[i][n].op = "db.get" /\ trace[i][n].ok /\ trace[i][n].body = "no Item"

\* db.get of invocation i returned the marker item.
ReadMarker(i) ==
    \E n \in 1..Len(trace[i]) :
        trace[i][n].op = "db.get" /\ trace[i][n].ok /\ trace[i][n].body = "Item"
\* db.update of invocation i succeeded.
WroteMarker(i) ==
    \E n \in 1..Len(trace[i]) : trace[i][n].op = "db.update" /\ trace[i][n].ok

\* The db.update calls in a sequence of calls, thrown ones included.
Writes(q) == Cardinality({n \in 1..Len(q) : q[n].op = "db.update"})

\* The value the contact reply should carry for a field: the value of the last
\* line of that field that has a symbol other than a blank, or the default.
HasVisible(v) == \E k \in 1..Len(v) : v[k] # " "
LastVisible(d, k, default) ==
    LET at == {n \in 1..Len(d) : d[n].key = k /\ HasVisible(d[n].value)}
    IN  IF at = {} THEN default ELSE d[Max(at)].value

\* Of an invocation that returned: a step inside the try block threw (a call
\* before the last one, or the read of the attribute of a missing Item).
ThrewInTry(i) == GotNoItem(i) \/ \E n \in 1..(Len(trace[i]) - 1) : ~trace[i][n].ok

\* The calls of a sequence, whether they succeeded or threw.
Attempts(q) == [n \in 1..Len(q) |-> [q[n] EXCEPT !.ok = TRUE]]

\* The messages of the photo path, written out.
Notice == Entry("sendMessage", "decoding", TRUE, NoReply, EmptyStr, EmptyStr, << >>)
SizeLimitMessage == Entry("sendMessage", "sizeLimit", TRUE, NoReply, EmptyStr, EmptyStr, << >>)
Announcement(d) ==
    Entry("sendMessage", IF Head(d) = BeginVcard THEN "doneContact" ELSE "doneText",
          TRUE, NoReply, EmptyStr, EmptyStr, << >>)
PayloadReply(m, d) ==
    IF Head(d) = BeginVcard
    THEN Entry("sendContact", "", FALSE, m.message_id,
               extractProperties(d).telephone, extractProperties(d).name, d)
    ELSE Entry("sendMessage", "data", TRUE, m.message_id, EmptyStr, EmptyStr, d)
\* What handleIncomingMessage sends for message m when the decode, if one
\* runs, gives d and no call fails, in the variant without the marker.
PlainReplies(m, d) ==
    IF m.text \notin {NoText, ""}
    THEN IF m.text \in {"/start", "/about"}
         THEN <<Entry("sendMessage", m.text, TRUE, NoReply, EmptyStr, EmptyStr, << >>)>>
         ELSE << >>
    ELSE IF m.has_photo /\ m.photo # << >>
    THEN IF LastVariant(m).width > sizeLimit \/ LastVariant(m).height > sizeLimit
         THEN <<SizeLimitMessage>>
         ELSE IF d = << >>
         THEN <<Notice, Entry("sendMessage", "empty", TRUE, m.message_id,
                              EmptyStr, EmptyStr, << >>)>>
         ELSE <<Notice, Announcement(d), PayloadReply(m, d)>>
    ELSE << >>
DecodedNonEmpty(i) == Jsqr(i, "object") /\ data[i] # << >>

\* ------------------------------------------------------------------ claims

\* C1: once an invocation carrying update id u has passed the gate, an
\* invocation carrying u that starts afterwards never runs
\* handleIncomingMessage.
C1_RedeliverySuppressed ==
    \A i \in Slots : late[i] => ~RanHandler(i)

\* C2: the marker never decreases: no step writes a value smaller than the
\* marker's value at the moment of the write.
C2_MarkerMonotone ==
    [][(HasItem /\ HasItem') => marker' >= marker]_vars

\* C3: an invocation whose update id is not above the marker it read emits no
\* outbound action and leaves the marker as it read it.
C3_DuplicateIsSilent ==
    \A i \in Slots : handled[i] = "true" => Outbox(i) = << >> /\ marker = latest[i]

\* C4: with invocations run one after another from an existing marker, the
\* marker is the maximum of its initial value and the update ids the gate has
\* decided on; an id at or below the marker takes the skip path and leaves the
\* marker alone, an id above it becomes the marker.
C4_MarkerIsMaximum ==
    HasItem =>
        /\ marker = Max({marker0} \cup checked)
        /\ \A i \in Slots :
            /\ handled[i] = "true" => upd[i] <= latest[i] /\ marker = latest[i]
            /\ handled[i] = "false" => latest[i] < upd[i] /\ marker = upd[i]

\* C4 witness: u1 < u2 were processed in that order and u1 was delivered again.
C4_Witness ==
    /\ HasItem /\ marker0 = 0 /\ checked = {1, 2} /\ passed = {1, 2}
    /\ pc[Container] = "returned" /\ handled[Container] = "true"
    /\ upd[Container] = 1 /\ marker = 2

\* C5: when db.get returns no Item, the gate does not fail, the marker is
\* initialised to the update id, the message is dispatched and no generic
\* error message is sent.
C5_MissingMarkerIsFirstUpdate ==
    \A i \in Slots :
        GotNoItem(i) =>
            /\ handled[i] = "false"
            /\ HasItem /\ marker = upd[i]
            /\ ErrorsSent(i) = 0

\* C6: no invocation propagates an exception to its caller.
C6_NeverThrows ==
    \A i \in Slots : pc[i] # "thrown"

\* C7: when jsQR finds no code (null, or an object with empty data) and every
\* send succeeds, the invocation ends with the "could not be decoded" reply to
\* the original message and without the generic error message.
C7_NotFoundIsEmptyReply ==
    \A i \in Slots :
        ( /\ pc[i] = "returned"
          /\ Jsqr(i, "null") \/ (Jsqr(i, "object") /\ data[i] = << >>)
          /\ \A n \in 1..Len(Outbox(i)) : Outbox(i)[n].ok )
        => /\ ErrorsSent(i) = 0
           /\ Last(Outbox(i)).body = "empty"
           /\ Last(Outbox(i)).reply_to = msg[i].message_id

\* C8: no invocation ends with its downloaded file still in the temporary
\* directory.
C8_TempFileRemoved ==
    \A i \in Slots : AtRest(i) => i \notin files

\* C9 as stated: a photo whose decode result is non-empty gets exactly two
\* outbound actions, the announcement and then the payload reply.
C9_TwoActions ==
    \A i \in Slots :
        (DecodedNonEmpty(i) /\ pc[i] = "returned" /\ NoFailure(i))
        => Outbox(i) = <<Announcement(data[i]), PayloadReply(msg[i], data[i])>>

\* C9 amended: a photo whose decode result is non-empty gets, when no call of
\* the invocation fails, exactly three outbound actions in this order: the
\* in-progress notice, the announcement, then the payload reply to the original
\* message (sendContact with the extracted name, phone and the raw vcard when
\* the result starts with BEGIN:VCARD, sendMessage of the decoded text
\* otherwise); at any moment the handler's sends are a prefix of these three.
C9_ThreeActions ==
    \A i \in Slots :
        DecodedNonEmpty(i) =>
            LET expected == <<Notice, Announcement(data[i]), PayloadReply(msg[i], data[i])>>
            IN  /\ IsPrefix(Attempts(HandlerOut(i)), expected)
                /\ (pc[i] = "returned" /\ NoFailure(i)) => Outbox(i) = expected

\* C9 witness: a decoded contact was announced and sent with its name and phone.
C9_Witness ==
    \E i \in Slots :
        /\ pc[i] = "returned" /\ NoFailure(i) /\ DecodedNonEmpty(i)
        /\ Len(Outbox(i)) = 3
        /\ Outbox(i)[3].op = "sendContact"
        /\ Outbox(i)[3].name = Str("A") /\ Outbox(i)[3].phone = Str("1")

\* C10: a photo whose last size variant is wider or taller than the limit gets
\* the size-limit message as the handler's only outbound action (the only
\* outbound action at all when that send succeeds) and no in-progress notice,
\* download, image read or barcode decode; a variant within the limit in both
\* dimensions is not rejected: its first outbound action is the notice.
C10_OversizeRejected ==
    \A i \in Slots :
        (IsPhotoMessage(msg[i]) /\ RanHandler(i)) =>
            IF LastVariant(msg[i]).width > sizeLimit \/ LastVariant(msg[i]).height > sizeLimit
            THEN /\ Ops(i) \cap {"downloadFile", "Jimp.read", "jsQR"} = {}
                 /\ Attempts(HandlerOut(i)) = <<SizeLimitMessage>>
                 /\ NoFailure(i) => Outbox(i) = <<SizeLimitMessage>>
                 /\ ErrorsSent(i) <= 1
            ELSE /\ HandlerOut(i) # << >>
                 /\ Attempts(HandlerOut(i))[1] = Notice

\* C10 witness: the last variant is too wide only, and the invocation ended
\* with the size-limit message alone.
C10_Witness ==
    \E i \in Slots :
        /\ pc[i] = "returned" /\ msg[i].photo = <<small, wide>>
        /\ Outbox(i) = <<SizeLimitMessage>>
\* C11: in every handler variant, a text message that is exactly /start,
\* /about or /app gets exactly one outbound markdown message with that
\* command's body, and any other non-empty text gets no outbound action.
\* Stated here for invocations that enter handleIncomingMessage and whose send
\* does not throw.
C11_CommandsAnswered ==
    \A i \in Slots :
        ( /\ pc[i] = "returned"
          /\ msg[i].text \notin {NoText, ""}
          /\ Entered(i) /\ NoFailure(i) )
        => IF msg[i].text \in {"/start", "/about", "/app"}
           THEN Outbox(i) = <<Entry("sendMessage", msg[i].text, TRUE, NoReply,
                                    EmptyStr, EmptyStr, << >>)>>
           ELSE Outbox(i) = << >>

\* C12: an invocation in which a step inside the try block throws (marker
\* store, download, image read, barcode decode, contact parse or a send) ends
\* with exactly one attempt of the generic error message, made right after the
\* failure, and with no other call after the failure.
C12_OneErrorMessage ==
    \A i \in Slots :
        /\ pc[i] = "catch" => ErrorsSent(i) = 0
        /\ (pc[i] = "returned" /\ ThrewInTry(i)) =>
              /\ ErrorsSent(i) = 1
              /\ Attempts(trace[i])[Len(trace[i])] = ErrorMessage
              /\ \A k \in 1..(Len(trace[i]) - 2) : trace[i][k].ok

\* C13: two concurrent invocations carrying the same update id that both read
\* a marker below that id both get false from checkAlreadyHandled once their
\* write succeeds, neither takes the skip path, and both run
\* handleIncomingMessage; the witness is the interleaving in which both have
\* replied for the one update.
C13_BothPassGate ==
    \A i \in Slots : \A j \in Slots \ {i} :
        ( /\ upd[i] = upd[j]
          /\ ReadMarker(i) /\ latest[i] < upd[i]
          /\ ReadMarker(j) /\ latest[j] < upd[j] )
        => /\ handled[i] # "true" /\ handled[j] # "true"
           /\ (WroteMarker(i) /\ WroteMarker(j)) =>
                 /\ handled[i] = "false" /\ handled[j] = "false"
                 /\ pc[i] # "dispatch" => RanHandler(i)
                 /\ pc[j] # "dispatch" => RanHandler(j)

\* C13 witness: two deliveries of one update, each read the marker below the
\* id, each got false from the gate, and each sent its reply.
C13_Witness ==
    \E i \in Slots : \E j \in Slots \ {i} :
        /\ delivered = 2 /\ upd[i] = upd[j]
        /\ ReadMarker(i) /\ latest[i] < upd[i] /\ handled[i] = "false"
        /\ ReadMarker(j) /\ latest[j] < upd[j] /\ handled[j] = "false"
        /\ pc[i] = "returned" /\ pc[j] = "returned"
        /\ NoFailure(i) /\ NoFailure(j)
        /\ Outbox(i) = <<sendMarkdownMessage("/about")>>
        /\ Outbox(j) = <<sendMarkdownMessage("/about")>>

\* C14: with invocations run one after another, the marker is written before
\* the dispatch and never put back: from the moment the gate returns false for
\* update id u the marker is at least u, also after a later step of that
\* invocation failed and after the invocation ended; a later delivery of u
\* whose read of the marker succeeds takes the skip path, and no later delivery
\* of u enters handleIncomingMessage or sends a handler reply.
C14_NoRollback ==
    /\ \A u \in lost : HasItem /\ marker >= u
    /\ \A i \in Slots :
        /\ handled[i] = "false" => HasItem /\ marker >= upd[i]
        /\ (late[i] /\ upd[i] \in lost) =>
              /\ handled[i] # "false"
              /\ ~RanHandler(i)
              /\ HandlerOut(i) = << >>
              /\ ReadMarker(i) => handled[i] = "true"

\* C14 witness: update id u passed the gate, a later step failed, and a
\* redelivery of u has returned by the skip path.
C14_Witness ==
    \E i \in Slots :
        /\ late[i] /\ upd[i] \in lost
        /\ pc[i] = "returned" /\ handled[i] = "true"
        /\ marker = upd[i]

\* C15: an invocation calls db.update at most once, and not at all when the
\* gate returns true; the table changes only in the step in which an
\* invocation whose read gave a marker below its update id completes that
\* db.update, and it changes to that update id. Every other step (the read,
\* the skip path, the router, the text and photo handlers, the catch block)
\* leaves the table as it was.
C15_MarkerWrittenOnceInGate ==
    [][ /\ \A i \in Slots :
            /\ Writes(trace'[i]) <= 1
            /\ handled'[i] = "true" => Writes(trace'[i]) = 0
        /\ table' # table =>
            \E i \in Slots :
                /\ pc[i] = "update" /\ pc'[i] = "dispatch"
                /\ ReadMarker(i) /\ latest[i] < upd[i]
                /\ Writes(trace[i]) = 0 /\ Writes(trace'[i]) = 1
                /\ table' = SetLatest(table, upd[i]) ]_vars

\* C15 witness: an invocation wrote the marker in the gate, a later step
\* failed and the error message was sent; the marker is the invocation's id.
C15_Witness ==
    \E i \in Slots :
        /\ pc[i] = "returned" /\ handled[i] = "false"
        /\ WroteMarker(i) /\ Writes(trace[i]) = 1
        /\ ~NoFailure(i) /\ ErrorsSent(i) = 1
        /\ marker = upd[i] /\ marker0 < marker

\* C16: within an invocation handling an accepted photo the steps follow one
\* another: the download starts only after the in-progress notice was sent,
\* the image is read only after the download completed, the barcode decode
\* runs only after the image was read, and the first message about the result
\* (the "could not be decoded" reply or the announcement) is sent only after
\* the decode returned; the payload reply follows the announcement. Each of
\* these calls directly follows the completed call before it.
C16_PhotoStepsOrdered ==
    \A i \in Slots : \A n \in 1..Len(trace[i]) :
        LET e == trace[i][n]
            AfterOk(op) == n > 1 /\ trace[i][n - 1].op = op /\ trace[i][n - 1].ok
        IN  /\ e.op = "downloadFile" => n > 1 /\ trace[i][n - 1] = Notice
            /\ e.op = "Jimp.read" => AfterOk("downloadFile")
            /\ e.op = "jsQR" => AfterOk("Jimp.read")
            /\ (e.op = "sendMessage" /\ e.body \in {"empty", "doneContact", "doneText"})
                  => AfterOk("jsQR")
            /\ (e.op \in {"sendContact", "vCard.parse"} \/ (e.op = "sendMessage" /\ e.body = "data"))
                  => /\ n > 2 /\ trace[i][n - 1] = Announcement(data[i])
                     /\ trace[i][n - 2].op = "jsQR"

\* C16 witness: a photo was decoded to text and every step of the path ran.
C16_Witness ==
    \E i \in Slots :
        /\ pc[i] = "returned" /\ NoFailure(i) /\ Len(trace[i]) = 8
        /\ [n \in 1..8 |-> trace[i][n].op] =
              <<"db.get", "db.update", "sendMessage", "downloadFile", "Jimp.read", "jsQR",
                "sendMessage", "sendMessage">>
        /\ trace[i][3] = Notice /\ trace[i][7].body = "doneText" /\ trace[i][8].body = "data"

\* C17: handleIncomingMessage gives every message exactly one of three
\* outcomes. A message with non-empty text, with or without photos, gets the
\* text handler: the command's message or nothing, and no photo step. A
\* message without text (absent or empty) and with a non-empty photo sequence
\* gets the photo handler: its first outbound action is the size-limit message
\* or the in-progress notice. Any other message (neither text nor photo, or an
\* empty photo sequence) gets no call at all.
C17_ThreeOutcomes ==
    \A i \in Slots :
        RanHandler(i) =>
            LET m == msg[i]
                afterGate == SubSeq(trace[i], 3, Len(trace[i]))
                photoOps == {"downloadFile", "Jimp.read", "jsQR", "vCard.parse", "sendContact"}
            IN  IF m.text \notin {NoText, ""}
                THEN /\ Ops(i) \cap photoOps = {}
                     /\ Attempts(HandlerOut(i)) \in
                           { <<sendMarkdownMessage(m.text)>>, << >> }
                ELSE IF m.has_photo /\ m.photo # << >>
                THEN /\ HandlerOut(i) # << >>
                     /\ Attempts(afterGate)[1] \in {SizeLimitMessage, Notice}
                ELSE afterGate = << >>

\* C17 witness: a message with both a command and a photo was answered by the
\* text handler alone.
C17_Witness ==
    \E i \in Slots :
        /\ pc[i] = "returned" /\ handled[i] = "false"
        /\ msg[i].text = "/start" /\ msg[i].has_photo /\ msg[i].photo = <<edge>>
        /\ Outbox(i) = <<sendMarkdownMessage("/start")>>

\* C18: the contact reply carries, as name, the value of the last FN entry
\* whose trimmed value is not blank, and "No name found" when the contact has
\* no FN entry or only blank ones; and, whatever the name is, as telephone the
\* value of the last non-blank TEL entry, and "123456789" when there is none.
C18_LastNonBlankOrDefault ==
    \A i \in Slots : \A n \in 1..Len(trace[i]) :
        trace[i][n].op = "sendContact" =>
            /\ trace[i][n].payload = data[i]
            /\ trace[i][n].name = LastVisible(data[i], "FN", <<"No name found">>)
            /\ trace[i][n].phone = LastVisible(data[i], "TEL", <<"123456789">>)

\* C18 witness: two names and only blank telephones; the second name and the
\* default telephone were sent.
C18_Witness ==
    \E i \in Slots :
        /\ pc[i] = "returned"
        /\ data[i] = <<BeginVcard, Line("FN", <<"A">>), Line("FN", <<" ", "B", " ">>),
                       Line("TEL", <<" ">>), Line("TEL", << >>)>>
        /\ Last(trace[i]).op = "sendContact"
        /\ Last(trace[i]).name = <<" ", "B", " ">>
        /\ Last(trace[i]).phone = <<"123456789">>

\* C19: the gate decides by comparing the update id with the marker it read
\* and by nothing else: an invocation whose read succeeded is skipped exactly
\* when the marker it read is not below its update id, whether or not that id
\* was let through before, and then sends no handler reply; an invocation
\* enters handleIncomingMessage only after reading a marker strictly below its
\* id, and does so whenever it read such a marker and its write succeeded.
C19_ComparisonOnly ==
    \A i \in Slots :
        /\ (ReadMarker(i) /\ latest[i] >= upd[i]) =>
              /\ handled[i] = "true"
              /\ ~RanHandler(i) /\ HandlerOut(i) = << >>
        /\ handled[i] = "true" => ReadMarker(i) /\ latest[i] >= upd[i]
        /\ RanHandler(i) => ReadMarker(i) /\ latest[i] < upd[i]
        /\ (ReadMarker(i) /\ latest[i] < upd[i] /\ WroteMarker(i) /\ pc[i] # "dispatch")
              => RanHandler(i)

\* C19 witness: update 2 was processed first; update 1, never delivered
\* before, then arrived and was skipped.
C19_Witness ==
    \E i \in Slots :
        /\ delivered = 2 /\ marker0 = 0 /\ passed = {2}
        /\ upd[i] = 1 /\ ~late[i]
        /\ pc[i] = "returned" /\ handled[i] = "true" /\ latest[i] = 2
        /\ HandlerOut(i) = << >> /\ marker = 2

\* C20: the handler of src/unnamed/part_000 has no gate: no invocation reads
\* or writes the marker or gets a gate result, the table stays as it was, and
\* every well-formed delivery, a redelivery of an update already handled
\* included, goes straight into handleIncomingMessage and, when no call
\* fails, ends with the full replies for its message.
C20_NoGate ==
    /\ checked = {} /\ lost = {}
    /\ HasItem => marker = marker0
    /\ \A i \in Slots :
        /\ pc[i] \notin {"get", "update", "skip"}
        /\ handled[i] = "pending"
        /\ Ops(i) \cap {"db.get", "db.update"} = {}
        /\ pc[i] \notin {"idle", "thrown"} => upd[i] \in passed
        /\ (pc[i] = "returned" /\ NoFailure(i)) => Outbox(i) = PlainReplies(msg[i], data[i])

\* C20 witness: a photo update that was already handled was delivered again
\* and got the notice, the announcement and the decoded text once more.
C20_Witness ==
    \E i \in Slots :
        /\ late[i] /\ delivered >= 2
        /\ pc[i] = "returned" /\ NoFailure(i)
        /\ Len(Outbox(i)) = 3 /\ Outbox(i)[1] = Notice
        /\ Outbox(i)[3].body = "data" /\ Outbox(i)[3].reply_to = msg[i].message_id
====
